---- MODULE Spec2Model ----
(***************************************************************************)
(* Model of DataAcquisition._get_flashscore_data                           *)
(* (src/src/data_management/_Data_acquisition.py, lines 116-178): the      *)
(* "load more" expansion loop, the per-block tokenizing, field mapping,    *)
(* date parsing, year tracking, integer coercion, row append and the       *)
(* final summary log.                                                      *)
(*                                                                         *)
(* A python str is a sequence of one-character strings, so that slicing,   *)
(* splitting, comparison and int()/strptime() are computed, not assumed.   *)
(* A python value that may be a str or an int is a record [t, v].          *)
(***************************************************************************)
EXTENDS Integers, Sequences, FiniteSets, TLC

\* ------------------------------------------------------------- bounds
MaxBlocks == 3
MaxClicks == 1
MaxCalls == 2

\* ------------------------------------------------------ python values
Str(s) == [t |-> "str", v |-> s]
IntV(n) == [t |-> "int", v |-> n]

Digits == {"0", "1", "2", "3", "4", "5", "6", "7", "8", "9"}

DigitVal(c) ==
  CASE c = "0" -> 0 [] c = "1" -> 1 [] c = "2" -> 2 [] c = "3" -> 3
    [] c = "4" -> 4 [] c = "5" -> 5 [] c = "6" -> 6 [] c = "7" -> 7
    [] c = "8" -> 8 [] c = "9" -> 9

\* Unicode code point of the characters that occur in the page texts.
Ord(c) ==
  CASE c = "\n" -> 10 [] c = " " -> 32 [] c = "+" -> 43 [] c = "-" -> 45
    [] c = "." -> 46 [] c = ":" -> 58 [] c = "_" -> 95
    [] c \in Digits -> 48 + DigitVal(c)
    [] c = "A" -> 65 [] c = "B" -> 66 [] c = "O" -> 79 [] c = "T" -> 84
    [] c = "a" -> 97 [] c = "e" -> 101 [] c = "m" -> 109

Range(s) == {s[i] : i \in 1..Len(s)}

\* python str.__gt__: lexicographic on code points, a proper prefix is smaller.
RECURSIVE StrGt(_, _)
StrGt(a, b) ==
  IF Len(a) = 0 THEN FALSE
  ELSE IF Len(b) = 0 THEN TRUE
  ELSE IF Ord(a[1]) # Ord(b[1]) THEN Ord(a[1]) > Ord(b[1])
  ELSE StrGt(Tail(a), Tail(b))

\* The pieces of s from position start on, the scan being at position i.
RECURSIVE SplitFrom(_, _, _, _)
SplitFrom(s, sep, i, start) ==
  IF i > Len(s) THEN <<SubSeq(s, start, Len(s))>>
  ELSE IF s[i] = sep
  THEN <<SubSeq(s, start, i - 1)>> \o SplitFrom(s, sep, i + 1, i + 1)
  ELSE SplitFrom(s, sep, i + 1, start)

\* python str.split(sep) for a one-character separator: empty pieces are kept.
Split(s, sep) == SplitFrom(s, sep, 1, 1)

\* python list.remove(x): drops the first occurrence of x.
ListRemove(l, x) ==
  LET i == CHOOSE k \in 1..Len(l) : l[k] = x /\ \A j \in 1..(k - 1) : l[j] # x
  IN SubSeq(l, 1, i - 1) \o SubSeq(l, i + 1, Len(l))

\* python str.strip() for the whitespace of the alphabet.
RECURSIVE LStrip(_)
LStrip(s) == IF Len(s) > 0 /\ s[1] = " " THEN LStrip(Tail(s)) ELSE s

RECURSIVE RStrip(_)
RStrip(s) ==
  IF Len(s) > 0 /\ s[Len(s)] = " " THEN RStrip(SubSeq(s, 1, Len(s) - 1)) ELSE s

RECURSIVE DigitsValue(_, _)
DigitsValue(s, acc) ==
  IF Len(s) = 0 THEN acc
  ELSE IF s[1] = "_" THEN DigitsValue(Tail(s), acc)
  ELSE DigitsValue(Tail(s), 10 * acc + DigitVal(s[1]))

\* The digit part of an int literal: digits, single underscores between them.
IsDigitPart(s) ==
  /\ Len(s) > 0
  /\ \A i \in 1..Len(s) : s[i] \in Digits \cup {"_"}
  /\ s[1] # "_" /\ s[Len(s)] # "_"
  /\ \A i \in 1..(Len(s) - 1) : ~(s[i] = "_" /\ s[i + 1] = "_")

\* python int(str): surrounding whitespace, an optional sign, the digit part.
\* ok = FALSE stands for the ValueError.
ParseInt(s) ==
  LET u == RStrip(LStrip(s))
      signed == Len(u) > 0 /\ u[1] \in {"+", "-"}
      body == IF signed THEN Tail(u) ELSE u
  IN IF ~IsDigitPart(body) THEN [ok |-> FALSE, v |-> 0]
     ELSE [ok |-> TRUE,
           v |-> IF signed /\ u[1] = "-" THEN 0 - DigitsValue(body, 0)
                 ELSE DigitsValue(body, 0)]

\* python int(x) of a value that is already an int, or of a str.
PyInt(x) == IF x.t = "int" THEN [ok |-> TRUE, v |-> x.v] ELSE ParseInt(x.v)

\* ------------------------------------------------- datetime.strptime
\* One field of the format, as the regular expression of _strptime reads it:
\* %d  3[0-1]|[1-2]\d|0[1-9]|[1-9]| [1-9]     %m  1[0-2]|0[1-9]|[1-9]
\* %H  2[0-3]|[0-1]\d|\d                      %M  [0-5]\d|\d
AllDigits(f) == \A i \in 1..Len(f) : f[i] \in Digits

FieldVal(f) == IF f[1] = " " THEN DigitVal(f[2]) ELSE DigitsValue(f, 0)

DayField(f) ==
  \/ Len(f) = 1 /\ f[1] \in Digits \ {"0"}
  \/ Len(f) = 2 /\ AllDigits(f) /\ FieldVal(f) \in 1..31
  \/ Len(f) = 2 /\ f[1] = " " /\ f[2] \in Digits \ {"0"}

MonthField(f) ==
  \/ Len(f) = 1 /\ f[1] \in Digits \ {"0"}
  \/ Len(f) = 2 /\ AllDigits(f) /\ FieldVal(f) \in 1..12

HourField(f) ==
  \/ Len(f) = 1 /\ AllDigits(f)
  \/ Len(f) = 2 /\ AllDigits(f) /\ FieldVal(f) \in 0..23

MinuteField(f) ==
  \/ Len(f) = 1 /\ AllDigits(f)
  \/ Len(f) = 2 /\ AllDigits(f) /\ FieldVal(f) \in 0..59

\* Days of a month of the year 1900, the year strptime gives a text without one.
DaysInMonth(m) == IF m = 2 THEN 28 ELSE IF m \in {4, 6, 9, 11} THEN 30 ELSE 31

\* Length of the run of blanks of s that starts at position i.
RECURSIVE BlankRun(_, _)
BlankRun(s, i) == IF i <= Len(s) /\ s[i] = " " THEN 1 + BlankRun(s, i + 1) ELSE 0

\* datetime.strptime(s, '%d.%m. %H:%M'). The whole text must match (no
\* unconverted data), the blank of the format matches one or more blanks, and
\* the day must exist in the month. The separators fix where each field ends:
\* a field is one character long when its separator follows at once, else two.
\* ok = FALSE stands for the ValueError.
Strptime(s) ==
  LET n == Len(s)
      ld == IF n >= 2 /\ s[2] = "." THEN 1 ELSE 2
      a == ld + 1
      lm == IF n >= a + 2 /\ s[a + 2] = "." THEN 1 ELSE 2
      b == a + lm + 1
      ws == BlankRun(s, b + 1)
      c == b + ws
      lh == IF n >= c + 2 /\ s[c + 2] = ":" THEN 1 ELSE 2
      e == c + lh + 1
      ln == n - e
      bad == [ok |-> FALSE, year |-> 1900, month |-> 0, day |-> 0,
              hour |-> 0, minute |-> 0]
      matched ==
        /\ ln \in 1..2
        /\ ws >= 1
        /\ DayField(SubSeq(s, 1, ld))
        /\ s[a] = "."
        /\ MonthField(SubSeq(s, a + 1, a + lm))
        /\ s[b] = "."
        /\ HourField(SubSeq(s, c + 1, c + lh))
        /\ s[e] = ":"
        /\ MinuteField(SubSeq(s, e + 1, n))
  IN IF ~matched THEN bad
     ELSE LET day == FieldVal(SubSeq(s, 1, ld))
              month == FieldVal(SubSeq(s, a + 1, a + lm))
          IN IF day > DaysInMonth(month) THEN bad
             ELSE [ok |-> TRUE, year |-> 1900, month |-> month, day |-> day,
                   hour |-> FieldVal(SubSeq(s, c + 1, c + lh)),
                   minute |-> FieldVal(SubSeq(s, e + 1, n))]

\* ------------------------------------------------------------ inputs
DigitChar(d) == CHOOSE c \in Digits : DigitVal(c) = d

\* Decimal text of a natural number (how the page prints a score).
RECURSIVE Dec(_)
Dec(n) == IF n < 10 THEN <<DigitChar(n)>> ELSE Dec(n \div 10) \o <<DigitChar(n % 10)>>

RECURSIVE JoinLines(_)
JoinLines(ts) ==
  IF Len(ts) = 0 THEN <<>>
  ELSE IF Len(ts) = 1 THEN ts[1]
  ELSE ts[1] \o <<"\n">> \o JoinLines(Tail(ts))

Scores(ns) == [i \in 1..Len(ns) |-> Dec(ns[i])]

AOT == <<"A", "O", "T">>
TeamA == <<"T", "e", "a", "m", "A">>
TeamB == <<"T", "e", "a", "m", "B">>

\* The text of the match elements a page can hold.
\* 13 lines, January, a draw
BlockJan ==
  JoinLines(<<<<"1", "5", ".", "0", "1", ".", " ", "1", "8", ":", "0", "0">>, TeamA, TeamB>>
            \o Scores(<<77, 77, 20, 18, 19, 20, 18, 19, 20, 21>>))
\* 13 lines, December
BlockDec ==
  JoinLines(<<<<"0", "1", ".", "1", "2", ".", " ", "1", "8", ":", "0", "0">>, TeamA, TeamB>>
            \o Scores(<<90, 85, 20, 18, 25, 20, 25, 24, 20, 23>>))
\* 15 lines, November, totals with different digit counts
BlockNov ==
  JoinLines(<<<<"2", "0", ".", "1", "1", ".", " ", "1", "9", ":", "3", "0">>, TeamB, TeamA>>
            \o Scores(<<100, 99, 22, 25, 25, 20, 20, 24, 23, 22, 10, 8>>))
\* 16 lines with the extra-time marker, 15 without it
BlockAot ==
  JoinLines(<<<<"9", ".", "1", "0", ".", " ", "2", "0", ":", "1", "5">>, AOT, TeamB, TeamA>>
            \o Scores(<<88, 93, 21, 20, 19, 22, 24, 20, 18, 20, 6, 11>>))
\* 14 lines
BlockShort ==
  JoinLines(<<<<"0", "2", ".", "1", "2", ".", " ", "1", "8", ":", "0", "0">>, TeamA, TeamB>>
            \o Scores(<<70, 65, 20, 18, 25, 20, 25, 24, 0, 3, 0>>))
\* 13 lines, a date-time text that is not 'dd.mm. HH:MM'
BlockBadDate ==
  JoinLines(<<<<"0", "3", "-", "1", "2", " ", "1", "8", ":", "0", "0">>, TeamA, TeamB>>
            \o Scores(<<81, 80, 20, 18, 21, 20, 20, 24, 20, 18>>))
\* 13 lines, a date-time text without a blank
BlockNoBlank ==
  JoinLines(<<<<"0", "3", ".", "1", "2", ".", "1", "8", ":", "0", "0">>, TeamA, TeamB>>
            \o Scores(<<81, 80, 20, 18, 21, 20, 20, 24, 20, 18>>))
\* 13 lines, a period score that is no number
BlockBadScore ==
  JoinLines(<<<<"0", "4", ".", "0", "1", ".", " ", "1", "7", ":", "0", "0">>, TeamA, TeamB>>
            \o Scores(<<60, 58, 20, 18>>) \o <<<<"-">>>> \o Scores(<<20, 20, 20, 20, 20>>))

\* The match elements a page can hold, and element.text of each (line 143).
Elements ==
  {"jan", "dec", "nov", "aot", "short", "baddate", "noblank", "badscore"}

ElementText(match) ==
  CASE match = "jan" -> BlockJan
    [] match = "dec" -> BlockDec
    [] match = "nov" -> BlockNov
    [] match = "aot" -> BlockAot
    [] match = "short" -> BlockShort
    [] match = "baddate" -> BlockBadDate
    [] match = "noblank" -> BlockNoBlank
    [] match = "badscore" -> BlockBadScore

RECURSIVE SeqsUpTo(_, _)
SeqsUpTo(S, n) ==
  IF n = 0 THEN {<<>>}
  ELSE LET shorter == SeqsUpTo(S, n - 1)
       IN shorter \cup {Append(q, x) : q \in {r \in shorter : Len(r) = n - 1}, x \in S}

\* The arguments of the call (get_data passes year, state, league, line 101).
YearLeague == <<"2", "0", "2", "2", "-", "2", "0", "2", "3">>
StateArg == "CZ"
LeagueArg == "NBL"

\* ------------------------------------------------------------- state
VARIABLES
  page,           \* the match elements the page holds once expansion has ended
  phase,          \* "Idle", "Loading", "Extracting", "Done", "Aborted"
  calls,          \* calls of _get_flashscore_data made on this object so far
  clicks,         \* successful "load more" clicks of the current call
  expand_failed,  \* the except branch of the expansion loop was taken
  matches,        \* local matches (empty until line 138 binds it)
  idx,            \* position of the for loop in matches
  last_month,     \* local last_month
  dt_year,        \* local dt_year, an int or a str value
  has_df,         \* self.df is not None
  df,             \* rows of self.df, in index order
  log,            \* what the logger received, each entry tagged with its call
  error,          \* the exception that ended the current call, or "none"
  prev_df,        \* history: self.df as the previous call left it
  prev_phase      \* history: how the previous call ended

vars ==
  <<page, phase, calls, clicks, expand_failed, matches, idx, last_month,
    dt_year, has_df, df, log, error, prev_df, prev_phase>>

Columns ==
  <<"State", "League", "league_years", "DT", "Home", "Away", "Winner",
    "Home_points", "Away_points", "H_14", "A_14", "H_24", "A_24", "H_34",
    "A_34", "H_44", "A_44", "H_54", "A_54">>

ColumnIndex(c) == CHOOSE i \in 1..Len(Columns) : Columns[i] = c

\* ----------------------------------------------- per-block operators
\* Lines 143-144: split the element text on line breaks, drop one 'AOT'.
Tokenize(text) ==
  LET match_text == Split(text, "\n")
  IN IF AOT \in Range(match_text) THEN ListRemove(match_text, AOT) ELSE match_text

\* Lines 145-153: positional unpacking of 13 or 15 tokens; nums are h_all,
\* a_all, h14, a14, h24, a24, h34, a34, h44, a44, h54, a54 (text, or the int 0).
FieldMapShifted(mt) ==
  IF Len(mt) = 13
  THEN [ok |-> TRUE, date_str |-> mt[1], home |-> mt[2], away |-> mt[3],
        nums |-> [i \in 1..12 |-> IF i <= 2 THEN Str(mt[i + 3])
                                  ELSE IF i <= 4 THEN IntV(0)
                                  ELSE Str(mt[i + 1])]]
  ELSE IF Len(mt) = 15
  THEN [ok |-> TRUE, date_str |-> mt[1], home |-> mt[2], away |-> mt[3],
        nums |-> [i \in 1..12 |-> Str(mt[i + 3])]]
  ELSE [ok |-> FALSE, date_str |-> <<>>, home |-> <<>>, away |-> <<>>,
        nums |-> <<>>]

FieldMap(mt) ==
  IF Len(mt) = 13
  THEN [ok |-> TRUE, date_str |-> mt[1], home |-> mt[2], away |-> mt[3],
        nums |-> [i \in 1..12 |-> IF i <= 10 THEN Str(mt[i + 3]) ELSE IntV(0)]]
  ELSE IF Len(mt) = 15
  THEN [ok |-> TRUE, date_str |-> mt[1], home |-> mt[2], away |-> mt[3],
        nums |-> [i \in 1..12 |-> Str(mt[i + 3])]]
  ELSE [ok |-> FALSE, date_str |-> <<>>, home |-> <<>>, away |-> <<>>,
        nums |-> <<>>]

\* Line 155: h_all and a_all are still text here, so > compares text.
Winner(h_all, a_all) ==
  IF StrGt(h_all, a_all) THEN "home"
  ELSE IF StrGt(a_all, h_all) THEN "away"
  ELSE "draw"

\* Line 156: date_str.index(' ') raises ValueError when there is no blank
\* (line 157 rebuilds the same text from its two slices).
HasBlank(date_str) == " " \in Range(date_str)

\* Line 161: the condition of the year switch.
RolloverOnDecember(lm, month) == month = 12

Rollover(lm, month) == lm = 1 /\ month = 12

\* Line 140: int(year_league[5:]).  Line 162: year_league[:4], a str.
EndYear(yl) == ParseInt(SubSeq(yl, 6, Len(yl)))
StartYearText(yl) == Str(SubSeq(yl, 1, 4))

\* Lines 168-172: the row list, its numeric tail coerced with int().
RowList(f, winner, dt, ints) ==
  <<StateArg, LeagueArg, YearLeague, dt, f.home, f.away, winner>> \o ints

\* Line 173: self.df.loc[len(self.df.index)] = row, the list laid on the columns.
RowRecord(row) == [c \in Range(Columns) |-> row[ColumnIndex(c)]]

AppendRowInPlace(table, row) ==
  IF Len(table) = 0 THEN <<RowRecord(row)>>
  ELSE [table EXCEPT ![Len(table)] = RowRecord(row)]

AppendRow(table, row) == Append(table, RowRecord(row))

\* Line 123: a fresh, empty table replaces self.df at the start of every call.
StaleTable == df

NewTable == <<>>

\* Lines 139-140: the run state of the year tracking.
InitLastMonth == 0 - 1

LogEntry(level, kind, match_text, n) ==
  [call |-> calls, level |-> level, kind |-> kind, match_text |-> match_text,
   n |-> n]

\* Line 166: dt.replace(year=y) of the parsed date-time.
Replace(dt, y) ==
  [year |-> y, month |-> dt.month, day |-> dt.day, hour |-> dt.hour,
   minute |-> dt.minute]

\* ------------------------------------------------------------ actions
Init ==
  /\ page \in SeqsUpTo(Elements, MaxBlocks)
  /\ phase = "Idle"
  /\ calls = 0
  /\ clicks = 0
  /\ expand_failed = FALSE
  /\ matches = <<>>
  /\ idx = 1
  /\ last_month = InitLastMonth
  /\ dt_year = IntV(0)
  /\ has_df = FALSE
  /\ df = <<>>
  /\ log = <<>>
  /\ error = "none"
  /\ prev_df = <<>>
  /\ prev_phase = "Idle"

\* Lines 116-125: a call starts (again, once the previous call has returned or
\* raised); the page is opened and self.df is replaced by an empty table. The
\* locals of the new frame are unbound: matches is empty, last_month and
\* dt_year keep values nothing reads before lines 139-140 assign them.
Call ==
  /\ phase \in {"Idle", "Done", "Aborted"}
  /\ calls < MaxCalls
  /\ calls' = calls + 1
  /\ phase' = "Loading"
  /\ prev_df' = df
  /\ prev_phase' = phase
  /\ df' = NewTable
  /\ has_df' = TRUE
  /\ clicks' = 0
  /\ expand_failed' = FALSE
  /\ matches' = <<>>
  /\ idx' = 1
  /\ error' = "none"
  /\ UNCHANGED <<page, last_month, dt_year, log>>

\* Lines 129-133: the control is found, becomes clickable and is clicked.
ExpandOk ==
  /\ phase = "Loading"
  /\ clicks < MaxClicks
  /\ clicks' = clicks + 1
  /\ UNCHANGED <<page, phase, calls, expand_failed, matches, idx, last_month,
                 dt_year, has_df, df, log, error, prev_df, prev_phase>>

\* Lines 134-140: anything raised in the try body (control missing, not
\* clickable within the timeout, the click failing) is caught and leaves the
\* loop; the match elements are collected and the run state initialised.
ExpandFailRetry ==
  /\ phase = "Loading"
  /\ ~expand_failed
  /\ expand_failed' = TRUE
  /\ UNCHANGED <<page, phase, calls, clicks, matches, idx, last_month,
                 dt_year, has_df, df, log, error, prev_df, prev_phase>>

ExpandFail ==
  /\ phase = "Loading"
  /\ expand_failed' = TRUE
  /\ matches' = page
  /\ idx' = 1
  /\ last_month' = InitLastMonth
  /\ LET y == EndYear(YearLeague)
     IN IF y.ok
        THEN /\ dt_year' = IntV(y.v)
             /\ phase' = "Extracting"
             /\ error' = error
        ELSE /\ dt_year' = dt_year
             /\ phase' = "Aborted"
             /\ error' = "ValueError"
  /\ UNCHANGED <<page, calls, clicks, has_df, df, log, prev_df, prev_phase>>

\* An exception leaves the for loop and the call; lm and yr are the locals as
\* the raising line found them.
Raise(exc, lm, yr) ==
  /\ phase' = "Aborted"
  /\ error' = exc
  /\ last_month' = lm
  /\ dt_year' = yr
  /\ UNCHANGED <<idx, df, log>>

\* What lines 143-153, 158 and 172 compute from one element's text, tabulated
\* per element: the token list, the unpacked fields, the parsed date-time and
\* int() of each numeric field.
MatchText == [match \in Elements |-> Tokenize(ElementText(match))]

Unpacked == [match \in Elements |-> FieldMap(MatchText[match])]

ParsedDate == [match \in Elements |-> Strptime(Unpacked[match].date_str)]

Coerced ==
  [match \in Elements |->
     [i \in 1..Len(Unpacked[match].nums) |-> PyInt(Unpacked[match].nums[i])]]

\* Lines 141-173: one iteration of the for loop over matches.
ProcessBlock ==
  /\ phase = "Extracting"
  /\ idx <= Len(matches)
  /\ LET match_text == MatchText[matches[idx]]
         f == Unpacked[matches[idx]]
     IN IF ~f.ok
        THEN /\ log' = Append(log, LogEntry("error", "skip", match_text, 0))
             /\ idx' = idx + 1
             /\ UNCHANGED <<phase, error, last_month, dt_year, df>>
        ELSE LET winner == Winner(f.nums[1].v, f.nums[2].v)
                 dt == ParsedDate[matches[idx]]
             IN IF ~HasBlank(f.date_str) \/ ~dt.ok
                THEN Raise("ValueError", last_month, dt_year)
                ELSE LET month == dt.month
                         year == IF Rollover(last_month, month)
                                 THEN StartYearText(YearLeague)
                                 ELSE dt_year
                         ints == Coerced[matches[idx]]
                     IN IF year.t # "int"
                        THEN Raise("TypeError", month, year)
                        ELSE IF year.v \notin 1..9999
                        THEN Raise("ValueError", month, year)
                        ELSE IF \E i \in 1..12 : ~ints[i].ok
                        THEN Raise("ValueError", month, year)
                        ELSE /\ df' = AppendRow(df,
                                        RowList(f, winner, Replace(dt, year.v),
                                                [i \in 1..12 |-> ints[i].v]))
                             /\ last_month' = month
                             /\ dt_year' = year
                             /\ idx' = idx + 1
                             /\ UNCHANGED <<phase, error, log>>
  /\ UNCHANGED <<page, calls, clicks, expand_failed, matches, has_df,
                 prev_df, prev_phase>>

\* Lines 175-178: the summary, once the for loop has run out of elements.
Summarize ==
  /\ phase = "Extracting"
  /\ idx > Len(matches)
  /\ log' = Append(log,
               IF Len(df) > 0
               THEN LogEntry("info", "success", <<>>, Len(df))
               ELSE LogEntry("info", "unsuccessful", <<>>, 0))
  /\ phase' = "Done"
  /\ UNCHANGED <<page, calls, clicks, expand_failed, matches, idx, last_month,
                 dt_year, has_df, df, error, prev_df, prev_phase>>

Next == Call \/ ExpandOk \/ ExpandFail \/ ProcessBlock \/ Summarize

Spec == Init /\ [][Next]_vars

\* ------------------------------------------------- claim vocabulary
EndYearNum == EndYear(YearLeague).v
StartYearNum == ParseInt(SubSeq(YearLeague, 1, 4)).v

InLoop == phase = "Extracting" /\ idx <= Len(matches)
\* The tokens of an element (an 'AOT' token removed), and what token 1 holds.
TokensOf == MatchText
DateOf == [e \in Elements |-> Strptime(TokensOf[e][1])]

CurTokens == TokensOf[matches[idx]]

RightCount(b) == Len(TokensOf[b]) \in {13, 15}

\* An element whose text has 13 or 15 tokens, whose date-time text parses and
\* whose score tokens are all integers.
ValidElements ==
  {e \in Elements :
     /\ Len(TokensOf[e]) \in {13, 15}
     /\ HasBlank(TokensOf[e][1])
     /\ DateOf[e].ok
     /\ \A i \in 4..Len(TokensOf[e]) : ParseInt(TokensOf[e][i]).ok}

ValidBlock(b) == b \in ValidElements

MonthOf(b) == DateOf[b].month

TotalsOf == [e \in Elements |-> <<ParseInt(TokensOf[e][4]), ParseInt(TokensOf[e][5])>>]

\* Row r carries the teams, the day and time and the totals of block b.
RowFrom(r, b) ==
  /\ r.Home = TokensOf[b][2]
  /\ r.Away = TokensOf[b][3]
  /\ r.DT.month = DateOf[b].month /\ r.DT.day = DateOf[b].day
  /\ r.DT.hour = DateOf[b].hour /\ r.DT.minute = DateOf[b].minute
  /\ r.Home_points = TotalsOf[b][1].v
  /\ r.Away_points = TotalsOf[b][2].v

Ended == phase \in {"Done", "Aborted"}

LogOf(level) ==
  SelectSeq(log, LAMBDA e : e.call = calls /\ e.level = level)

\* C1: in every emitted row Winner is 'home' iff Home_points > Away_points,
\* 'away' iff Away_points > Home_points and 'draw' iff they are equal, the
\* totals compared as the integers stored in the row.
C1_WinnerNumeric ==
  \A k \in 1..Len(df) :
    /\ df[k].Winner = "home" <=> df[k].Home_points > df[k].Away_points
    /\ df[k].Winner = "away" <=> df[k].Away_points > df[k].Home_points
    /\ df[k].Winner = "draw" <=> df[k].Home_points = df[k].Away_points

\* C2: a block of 13 or 15 tokens whose date-time text does not match
\* 'dd.mm. HH:MM', or one of whose score tokens is no integer, is skipped
\* without aborting the run: it adds no row and the loop goes on to the next
\* block, so every later block is processed.
C2_BadRecordSkipped ==
  [][(InLoop /\ RightCount(matches[idx]) /\ ~ValidBlock(matches[idx]))
       => (phase' = "Extracting" /\ idx' = idx + 1 /\ df' = df)]_vars

\* C3: when a December record is processed right after a parsed January
\* record, the January row carries the season's end year, a row is emitted
\* for the December record, it carries the season's start year, and the run
\* goes on with the start year as the tracked year.
C3_RolloverEmitsStartYear ==
  [][(InLoop /\ last_month = 1 /\ ValidBlock(matches[idx])
        /\ MonthOf(matches[idx]) = 12)
       => /\ df[Len(df)].DT.year = EndYearNum
          /\ phase' = "Extracting"
          /\ Len(df') = Len(df) + 1
          /\ RowFrom(df'[Len(df')], matches[idx])
          /\ df'[Len(df')].DT.year = StartYearNum
          /\ PyInt(dt_year').ok /\ PyInt(dt_year').v = StartYearNum]_vars

\* C4: within a run the tracked year changes only at a record of month 12
\* whose last parsed predecessor had month 1; a block skipped for its token
\* count changes neither the last-seen month nor the tracked year; and while
\* the tracked year is the one the run started with, every emitted row is
\* stamped with the season's end year.
C4_YearChangesOnlyOnRollover ==
  /\ [][(phase = "Extracting" /\ dt_year' # dt_year)
          => (InLoop /\ last_month = 1 /\ RightCount(matches[idx])
                /\ MonthOf(matches[idx]) = 12)]_vars
  /\ [][(InLoop /\ ~RightCount(matches[idx]))
          => (last_month' = last_month /\ dt_year' = dt_year)]_vars
  /\ []((phase \in {"Extracting", "Done"} /\ dt_year = IntV(EndYearNum))
          => \A k \in 1..Len(df) : df[k].DT.year = EndYearNum)

\* C4 witness: a run in which January, then a block skipped for its token
\* count, then December were met, and the tracked year changed there.
C4_Witness ==
  /\ Len(matches) = 3
  /\ idx = 3
  /\ ~RightCount(matches[2])
  /\ Len(df) = 1 /\ df[1].DT.month = 1 /\ df[1].DT.year = EndYearNum
  /\ last_month = 12
  /\ dt_year # IntV(EndYearNum)

\* C5: every block whose token count is neither 13 nor 15 adds no row and
\* exactly one error-level log entry, and the run continues past it: when the
\* run has ended, each such block has its log entry and every valid block
\* after it has its row.
C5_WrongCountIsolated ==
  /\ [][(InLoop /\ ~RightCount(matches[idx]))
          => (df' = df /\ phase' = "Extracting" /\ idx' = idx + 1
                /\ Len(log') = Len(log) + 1
                /\ log'[Len(log')].level = "error")]_vars
  /\ [](Ended =>
          \A i \in 1..Len(matches) :
            ~RightCount(matches[i]) =>
              /\ Len(SelectSeq(LogOf("error"),
                       LAMBDA e : e.match_text = TokensOf[matches[i]]))
                   = Cardinality({j \in 1..Len(matches) : matches[j] = matches[i]})
              /\ \A j \in (i + 1)..Len(matches) :
                   ValidBlock(matches[j])
                     => \E k \in 1..Len(df) : RowFrom(df[k], matches[j]))

\* C6: the row emitted for a block of 13 or 15 tokens (an 'AOT' token
\* removed) has tokens 1..5 as date-time, Home, Away, Home_points and
\* Away_points, tokens 6..13 as the first four period pairs in order, and
\* the fifth pair from tokens 14 and 15, or (0, 0) when there are 13 tokens;
\* every score field is an integer.
C6_RowFieldsFromTokens ==
  [][Len(df') = Len(df) + 1 =>
       LET mt == CurTokens
           r == df'[Len(df')]
           period == <<"H_14", "A_14", "H_24", "A_24", "H_34", "A_34",
                       "H_44", "A_44">>
       IN /\ Len(mt) \in {13, 15}
          /\ RowFrom(r, matches[idx])
          /\ \A i \in 1..8 : r[period[i]] = ParseInt(mt[i + 5]).v
          /\ Len(mt) = 13 => (r.H_54 = 0 /\ r.A_54 = 0)
          /\ Len(mt) = 15 => (/\ r.H_54 = ParseInt(mt[14]).v
                              /\ r.A_54 = ParseInt(mt[15]).v)
          /\ \A i \in 8..19 : r[Columns[i]] \in Int]_vars

\* C6 witness: the table holds a row from 13 tokens (fifth period zeroed), a
\* row from 15 tokens and a row from a block that had the 'AOT' token.
C6_Witness ==
  /\ \E k \in 1..Len(df) : df[k].H_54 = 0 /\ df[k].A_54 = 0 /\ df[k].H_44 = 20
  /\ \E k \in 1..Len(df) : df[k].H_54 = 10 /\ df[k].A_54 = 8
  /\ \E k \in 1..Len(df) : df[k].H_54 = 6 /\ df[k].A_54 = 11

\* The blocks of a prefix that have 13 or 15 tokens, in page order.
RECURSIVE RightCountBlocks(_)
RightCountBlocks(bs) ==
  IF Len(bs) = 0 THEN <<>>
  ELSE IF RightCount(bs[Len(bs)])
  THEN Append(RightCountBlocks(SubSeq(bs, 1, Len(bs) - 1)), bs[Len(bs)])
  ELSE RightCountBlocks(SubSeq(bs, 1, Len(bs) - 1))

\* C7: after any prefix of the blocks has been processed the table holds
\* exactly one row per valid block of that prefix, in page order; a step of
\* the run either leaves the table alone or adds one row at its end, the
\* rows already there unchanged; identical blocks give identical rows, one
\* each.
C7_TableIsPrefixInOrder ==
  /\ [](phase \in {"Extracting", "Done", "Aborted"} =>
          LET done == RightCountBlocks(SubSeq(matches, 1, idx - 1))
          IN /\ Len(df) = Len(done)
             /\ \A k \in 1..Len(df) : ValidBlock(done[k]) /\ RowFrom(df[k], done[k]))
  /\ [][calls' = calls =>
          \/ df' = df
          \/ /\ InLoop
             /\ Len(df') = Len(df) + 1
             /\ SubSeq(df', 1, Len(df)) = df]_vars

\* C7 witness: the same valid block met twice has given two equal rows, after
\* a row of another block.
C7_Witness ==
  /\ Len(df) = 3
  /\ df[2] = df[3]
  /\ df[1] # df[2]
  /\ matches[2] = matches[3]

\* C8: a second call on the same object with the same blocks and labels ends
\* as the first did and leaves an identical table; it starts its loop with
\* an empty table, the last-seen month at the sentinel and the tracked year
\* at the season's end year.
C8_SecondRunIdentical ==
  /\ (calls >= 2 /\ Ended) => (df = prev_df /\ phase = prev_phase)
  /\ (calls >= 2 /\ phase = "Extracting" /\ idx = 1) =>
       (df = <<>> /\ last_month = 0 - 1 /\ dt_year = IntV(EndYearNum))

\* C8 witness: the second call has ended after a first call that left rows.
C8_Witness ==
  /\ calls = 2
  /\ phase = "Done"
  /\ prev_phase = "Done"
  /\ Len(prev_df) >= 2

\* C9: the driver goes Loading -> Loading (a successful expansion) ->
\* Extracting -> Done: nothing is collected or processed while Loading; a
\* step taken in Loading is one expansion attempt, a success staying in
\* Loading and a failure moving to Extracting at once, never aborting;
\* Extracting never goes back to Loading; only a new call enters Loading.
C9_DriverStateMachine ==
  /\ [](phase = "Loading" =>
          (matches = <<>> /\ idx = 1 /\ df = <<>> /\ ~expand_failed))
  /\ [][phase = "Loading" =>
          \/ phase' = "Loading" /\ clicks' = clicks + 1 /\ ~expand_failed'
          \/ phase' = "Extracting" /\ clicks' = clicks /\ expand_failed']_vars
  /\ [][phase = "Extracting" => phase' \in {"Extracting", "Done", "Aborted"}]_vars
  /\ [][(phase # "Loading" /\ phase' = "Loading") => calls' = calls + 1]_vars
  /\ [][phase = "Done" => phase' \in {"Done", "Loading"}]_vars

\* C9 witness: a call that expanded the page, failed once to expand it
\* further, processed its blocks and finished.
C9_Witness ==
  /\ phase = "Done"
  /\ clicks >= 1
  /\ expand_failed
  /\ Len(df) >= 1

\* C10: a call that has ended has logged exactly one summary, after its last
\* block: the number of rows when there is at least one, the 'unsuccessful'
\* message when there is none; a call still loading or extracting has logged
\* no summary.
C10_OneSummaryAtEnd ==
  LET sums == LogOf("info")
  IN /\ Ended =>
          /\ Len(sums) = 1
          /\ idx > Len(matches)
          /\ Len(df) > 0 => (sums[1].kind = "success" /\ sums[1].n = Len(df))
          /\ Len(df) = 0 => sums[1].kind = "unsuccessful"
     /\ phase \in {"Loading", "Extracting"} => Len(sums) = 0

====
